---- MODULE Spec2Model ----
(***************************************************************************)
(* A model of the APNS client: the notification queue (notificationQueue:  *)
(* AddNotification, IsHasToSend, Put, Get, ResendFromID, WriteTo and the   *)
(* cache-cleaning goroutine) and the delivery driver (Client.Send and      *)
(* Client.sendQueue).                                                      *)
(*                                                                         *)
(* Eight specifications share the variables:                               *)
(*   Spec        the queue used through its own methods by concurrent      *)
(*               callers, with the cache-cleaning goroutine and the clock; *)
(*   SpecFlush   AddNotification, Get and WriteTo with items of two        *)
(*               lengths, to study how WriteTo packs frames;               *)
(*   SpecIds     AddNotification, Get and ResendFromID with the id counter *)
(*               free to overflow;                                         *)
(*   SpecEvict   the cache-cleaning goroutine and the clock beside         *)
(*               AddNotification, Get and ResendFromID;                    *)
(*   SpecClient  Client.Send callers and the sendQueue goroutines they     *)
(*               start, with the id counter free to overflow;              *)
(*   SpecSubmit  the same, the callers bringing two tokens or none;        *)
(*   SpecPut     AddNotification, Put and Get, Put given items with and    *)
(*               without an id;                                            *)
(*   SpecFeedback  Feedback reading the answer of the feedback server.     *)
(*                                                                         *)
(* q.mu is a sync.RWMutex.  Every section under q.mu.Lock() is one step,   *)
(* enabled only when no reader holds the lock; the only reader that keeps  *)
(* the lock over several steps is WriteTo (it writes to the sink under     *)
(* RLock), recorded in rlock.  Indices are 0-based as in the source:       *)
(* At(l, i) is l[i] of the Go slice.                                       *)
(***************************************************************************)
EXTENDS Integers, Sequences, FiniteSets, TLC

\* ------------------------------------------------------------- bounds
\* width of the id counter in the model (the source's counter is a uint32)
CounterBits == 2
\* most ids the callers have the queue assign in Spec and SpecFlush
MaxIds == 3
\* most items the list holds at once in SpecIds, where ids are not capped
MaxLen == 3
\* last instant of the logical clock
MaxTime == 3
\* most items the Send callers queue in SpecClient
MaxQueued == 4
\* most records in one answer of the feedback server
MaxRecords == 2

\* ---------------------------------------------------------- constants
CounterMod == 2 ^ CounterBits
\* the ceiling of one frame, in bytes
MaxFrameBuffer == 2048
\* the retention window of sent items, in clock ticks
CacheLifeTime == 2
\* the length of a decoded device token
TokenSize == 32
\* the zero time.Time; the clock starts after it
ZeroTime == 0
\* the length of the header of a feedback record: make([]byte, 6)
HeaderSize == 6

\* serialized lengths of the notifications the callers submit
ItemLens == {1000, 1100}
\* bytes a failing sink write may have taken before it failed
FailedWrites == {0, 500}

VARIABLES
    list,        \* q.list: the items, sent ones first
    counter,     \* q.counter
    idUnsended,  \* q.idUnsended: index of the first unsent item
    rlock,       \* the callers holding q.mu.RLock() between steps
    now,         \* time.Now()
    panic,       \* the process died of a runtime panic
    wrapped,     \* history: q.counter has overflowed
    solo,        \* history: the operation that has run alone since it began
    last,        \* history: the call that returned in the last step, and what
                 \* it returned
    ev,          \* the cache-cleaning goroutine: pc, i, lifeTime, wake
    rs,          \* a ResendFromID call: pc, i
    gt,          \* a Get call: pc
    wt,          \* a WriteTo call: pc, i, length, sended, total, err, buf, and
                 \* history: from (the cursor at the call), frames (the writes)
    isSendign,   \* client.isSendign
    isConnected, \* client.conn.isConnected
    snd,         \* the Send calls in progress, per caller
    lp,          \* the sendQueue goroutines
    sentLog,     \* history: ids in the order sendQueue wrote them to its buffer
    overlap,     \* history: two sendQueue loops have run side by side
    fb           \* a Feedback call: pc, the bytes the server sends, pos, header,
                 \* tokenSize, tokenBuffer, result, err

qvars == <<list, counter, idUnsended, rlock, now, panic, wrapped, solo, last,
          ev>>
apivars == <<rs, gt, wt>>
cvars == <<isSendign, isConnected, snd, lp, sentLog, overlap>>
vars == <<qvars, apivars, cvars, fb>>
\* the variables of the queue without the history of the last call
qstate == <<list, counter, idUnsended, rlock, now, panic, wrapped, solo, ev>>

\* ------------------------------------------------------------ helpers
At(l, i) == l[i + 1]
\* l[i:] of a Go slice, for 0 <= i <= len(l)
SliceFrom(l, i) == SubSeq(l, i + 1, Len(l))
InRange(l, i) == i >= 0 /\ i < Len(l)

RECURSIVE SumLens(_, _)
\* the serialized length of the items of l at the indices idx
SumLens(l, idx) ==
    IF idx = <<>> THEN 0 ELSE At(l, Head(idx)).Len + SumLens(l, Tail(idx))

\* t.After(u) of time.Time
After(t, u) == t > u

\* the item with the given fields, not yet sent
\* (out is history: the item was handed out, by Get or in a frame the sink
\* took)
NewItem(id, len, dev) ==
    [ID |-> id, Len |-> len, Sended |-> ZeroTime, tok |-> dev, out |-> FALSE]

\* device tokens as the callers give them: a string that decodes (or not) to
\* size bytes
TokA == [dev |-> "a", hexok |-> TRUE, size |-> TokenSize]
TokB == [dev |-> "b", hexok |-> TRUE, size |-> TokenSize]
TokShort == [dev |-> "s", hexok |-> TRUE, size |-> TokenSize - 1]
TokNoHex == [dev |-> "x", hexok |-> FALSE, size |-> 0]
\* the token lists of the callers: of Spec, of SpecFlush and of SpecIds
TokenLists == {<<>>, <<TokA>>, <<TokA, TokA>>, <<TokShort, TokA>>, <<TokNoHex>>}
FlushTokenLists == {<<TokA>>, <<TokA, TokA>>}
IdTokenLists == {<<TokA>>, <<TokB, TokA>>, <<TokB, TokNoHex, TokA>>}
\* notification templates: whether convert() succeeds, and the item length;
\* those of Spec all have the greater length, two of which overflow a frame
Templates == [ok : BOOLEAN, Len : {1100}]
FlushTemplates == [ok : {TRUE}, Len : ItemLens]

\* hex.DecodeString succeeded and gave 32 bytes
ValidToken(t) == t.hexok /\ t.size = TokenSize
ValidCount(toks) == Cardinality({k \in 1..Len(toks) : ValidToken(toks[k])})

\* q.counter++ on a uint32
Inc(c) == (c + 1) % CounterMod

\* the operation p went on: any other running operation is no longer alone
Alone(p) == IF solo = p THEN p ELSE "none"

\* ------------------------------------------------ notificationQueue
\* a loop that increments the counter once for all the tokens of a call
AppendTokensOneId(l, c, len, toks) ==
    LET id == Inc(c)
        valid == SelectSeq(toks, ValidToken)
    IN  [list |-> l \o [k \in 1..Len(valid) |-> NewItem(id, len, valid[k].dev)],
         counter |-> IF valid = <<>> THEN c ELSE id,
         wrapped |-> (valid # <<>> /\ id = 0)]

\* the loop of AddNotification over the tokens: [list, counter, wrapped]
RECURSIVE AppendTokens(_, _, _, _)
AppendTokens(l, c, len, toks) ==
    IF toks = <<>>
    THEN [list |-> l, counter |-> c, wrapped |-> FALSE]
    ELSE IF ~ValidToken(Head(toks))
    THEN AppendTokens(l, c, len, Tail(toks))
    ELSE LET id == Inc(c)
             r == AppendTokens(Append(l, NewItem(id, len, Head(toks).dev)),
                               id, len, Tail(toks))
         IN  [r EXCEPT !.wrapped = @ \/ id = 0]

\* an AddNotification that queues the tokens without looking at the result
\* of convert()
AddNotificationUnchecked(ntf, toks) ==
    IF toks = <<>>
    THEN UNCHANGED <<list, counter, wrapped>>
    ELSE /\ rlock = {}
         /\ LET r == AppendTokens(list, counter, ntf.Len, toks)
            IN  /\ list' = r.list
                /\ counter' = r.counter
                /\ wrapped' = (wrapped \/ r.wrapped)

\* whether AddNotification returns an error
AddFails(ntf, toks) == toks # <<>> /\ ~ntf.ok

\* q.AddNotification(ntf, tokens...)
AddNotification(ntf, toks) ==
    IF toks = <<>> \/ ~ntf.ok
    THEN UNCHANGED <<list, counter, wrapped>>
    ELSE /\ rlock = {}
         /\ LET r == AppendTokens(list, counter, ntf.Len, toks)
            IN  /\ list' = r.list
                /\ counter' = r.counter
                /\ wrapped' = (wrapped \/ r.wrapped)

\* q.IsHasToSend()
IsHasToSend == Len(list) > idUnsended

\* the loop of Put giving ids to the items that have none
RECURSIVE PutIds(_, _)
PutIds(items, c) ==
    IF items = <<>>
    THEN [items |-> <<>>, counter |-> c, wrapped |-> FALSE]
    ELSE IF Head(items).ID = 0
    THEN LET id == Inc(c)
             r == PutIds(Tail(items), id)
         IN  [r EXCEPT !.items = <<[Head(items) EXCEPT !.ID = id]>> \o @,
                       !.wrapped = @ \/ id = 0]
    ELSE LET r == PutIds(Tail(items), c)
         IN  [r EXCEPT !.items = <<Head(items)>> \o @]

\* q.Put(list...)
Put(items) ==
    /\ rlock = {}
    /\ LET r == PutIds(items, counter)
       IN  /\ list' = list \o r.items
           /\ counter' = r.counter
           /\ wrapped' = (wrapped \/ r.wrapped)

\* a cursor that Get leaves where it was
NextCursorStuck(cur) == cur

\* q.idUnsended++ of Get
NextCursor(cur) == cur + 1

\* the item Get hands out: the first unsent one, stamped
GetItem == [At(list, idUnsended) EXCEPT !.Sended = now, !.out = TRUE]

\* the locked part of q.Get(), after IsHasToSend() returned true
GetLocked ==
    /\ rlock = {}
    /\ IF InRange(list, idUnsended)
       THEN /\ list' = [list EXCEPT ![idUnsended + 1] = GetItem]
            /\ idUnsended' = NextCursor(idUnsended)
            /\ UNCHANGED panic
       ELSE /\ panic' = TRUE
            /\ UNCHANGED <<list, idUnsended>>

\* the index ResendFromID stops at: the first sent item with the id, or -1
ResendIndex(l, cur, id) ==
    LET hits == {i \in 0..(cur - 1) : InRange(l, i) /\ At(l, i).ID = id}
    IN  IF hits = {} THEN -1 ELSE CHOOSE i \in hits : \A j \in hits : i <= j

\* a truncation that keeps the matched item whatever exclude says
ResendStartKeeps(i, exclude) == i

\* the index ResendFromID truncates at, having found the id at index i
ResendStart(i, exclude) == IF exclude THEN i + 1 ELSE i

\* the scan of ResendFromID reads an element that is not there
ResendOutOfRange(l, cur, id) ==
    /\ cur > Len(l)
    /\ ResendIndex(l, cur, id) = -1

\* a scan that keeps the newest stale item
EvictIndexKeepsOne(l, cur, lifeTime) ==
    LET stale == {i \in 1..cur : At(l, i - 1).Sended <= lifeTime}
    IN  IF stale = {} THEN 0
        ELSE (CHOOSE i \in stale : \A j \in stale : j <= i) - 1

\* the index the cache-cleaning scan stops at: one past the last sent item
\* that is not after lifeTime, or 0
EvictIndex(l, cur, lifeTime) ==
    LET stale == {i \in 1..cur : ~After(At(l, i - 1).Sended, lifeTime)}
    IN  IF stale = {} THEN 0 ELSE CHOOSE i \in stale : \A j \in stale : j <= i

\* the cursor after the cache-cleaning goroutine dropped list[:i]
EvictCursor(cur, i) == cur - i

\* the loop of WriteTo from index i until it has a frame to write:
\* [list, buf, i], buf being the indices of the items in the buffer
RECURSIVE Fill(_, _, _, _, _)
Fill(l, i, length, buf, t) ==
    IF SumLens(l, buf) + At(l, i).Len <= MaxFrameBuffer
    THEN LET l2 == [l EXCEPT ![i + 1] = [@ EXCEPT !.Sended = t]]
             buf2 == Append(buf, i)
         IN  IF i < length - 1
             THEN Fill(l2, i + 1, length, buf2, t)
             ELSE [list |-> l2, buf |-> buf2, i |-> i]
    ELSE [list |-> l, buf |-> buf, i |-> i]

\* the index WriteTo records after a frame was written at loop index i
Sended(i) == i

\* the cursor WriteTo publishes
PublishedCursor(sended) == sended + 1

\* whether WriteTo moves the cursor at all
MustPublish(cur, sended) == cur < sended

\* history: the items at the indices idx were handed out once more
MarkOut(l, idx) ==
    [k \in 1..Len(l) |->
        IF \E j \in 1..Len(idx) : idx[j] + 1 = k
        THEN [l[k] EXCEPT !.out = TRUE]
        ELSE l[k]]

\* ------------------------------------------------------------- state
Senders == {"s1", "s2"}
Loops == {"g1", "g2"}
\* an order on the goroutines, to name the one that starts next
LoopRank(g) == IF g = "g1" THEN 1 ELSE 2

IdleLoop == [pc |-> "off", ntf |-> -1, buf |-> 0, tries |-> 0]
IdleResend == [pc |-> "idle", i |-> 0, id |-> 0, exclude |-> FALSE]
\* no Feedback call has been made
IdleFeedback ==
    [pc |-> "idle", stream |-> <<>>, records |-> <<>>, pos |-> 0,
     header |-> <<>>, tokenSize |-> 0, tokenBuffer |-> <<>>, result |-> <<>>,
     err |-> FALSE]
IdleWriteTo ==
    [pc |-> "idle", i |-> 0, length |-> 0, sended |-> 0, total |-> 0,
     err |-> FALSE, buf |-> <<>>, from |-> 0, frames |-> <<>>]
\* the cache-cleaning goroutine asleep since the instant t
EvictSleep(t) == [pc |-> "sleep", i |-> 0, lifeTime |-> 0, wake |-> t]
\* no call returned in the last step
None == [op |-> "none"]

Init ==
    /\ list = <<>>
    /\ counter = 0
    /\ idUnsended = 0
    /\ rlock = {}
    /\ now = 1
    /\ panic = FALSE
    /\ wrapped = FALSE
    /\ solo = "none"
    /\ last = None
    /\ ev = EvictSleep(1)
    /\ rs = IdleResend
    /\ gt = "idle"
    /\ wt = IdleWriteTo
    /\ isSendign = FALSE
    /\ isConnected = FALSE
    /\ snd = [s \in Senders |-> "idle"]
    /\ lp = [g \in Loops |-> IdleLoop]
    /\ sentLog = <<>>
    /\ overlap = FALSE
    /\ fb = IdleFeedback

\* --------------------------------------------------- the clock
Tick ==
    /\ ~panic
    /\ now < MaxTime
    /\ now' = now + 1
    /\ last' = None
    /\ UNCHANGED <<list, counter, idUnsended, rlock, panic, wrapped, solo, ev>>
    /\ UNCHANGED <<apivars, cvars>>
    /\ UNCHANGED fb

\* ------------------------------- the cache-cleaning goroutine
\* lines 29-40 and 48: sleep, then scan the sent items under RLock
EvictScan ==
    /\ ~panic
    /\ ev.pc = "sleep"
    /\ now >= ev.wake + CacheLifeTime
    /\ LET lifeTime == now - CacheLifeTime
           i == EvictIndex(list, idUnsended, lifeTime)
       IN  IF idUnsended > Len(list)
           THEN /\ panic' = TRUE
                /\ last' = None
                /\ UNCHANGED <<ev, solo>>
           ELSE /\ UNCHANGED panic
                /\ ev' = IF i = 0 THEN EvictSleep(now)
                         ELSE [ev EXCEPT !.pc = "apply", !.i = i,
                                         !.lifeTime = lifeTime]
                /\ last' = IF i = 0
                           THEN [op |-> "Evict", alone |-> TRUE, removed |-> 0,
                                 lifeTime |-> lifeTime]
                           ELSE None
                /\ solo' = IF i = 0 THEN "none" ELSE "E"
    /\ UNCHANGED <<list, counter, idUnsended, rlock, now, wrapped>>
    /\ UNCHANGED <<apivars, cvars>>
    /\ UNCHANGED fb

\* lines 41-46: drop the stale items under Lock
EvictApply ==
    /\ ~panic
    /\ ev.pc = "apply"
    /\ rlock = {}
    /\ IF ev.i > Len(list)
       THEN /\ panic' = TRUE
            /\ last' = None
            /\ UNCHANGED <<list, idUnsended, ev>>
       ELSE /\ list' = SliceFrom(list, ev.i)
            /\ idUnsended' = EvictCursor(idUnsended, ev.i)
            /\ ev' = EvictSleep(now)
            /\ last' = [op |-> "Evict", alone |-> (solo = "E"), removed |-> ev.i,
                        lifeTime |-> ev.lifeTime]
            /\ UNCHANGED panic
    /\ solo' = "none"
    /\ UNCHANGED <<counter, rlock, now, wrapped>>
    /\ UNCHANGED <<apivars, cvars>>
    /\ UNCHANGED fb

\* ------------------------------------- callers of the queue
CallAdd(ntf, toks) ==
    /\ ~panic
    /\ counter + ValidCount(toks) <= MaxIds
    /\ AddNotification(ntf, toks)
    /\ solo' = "none"
    /\ last' = [op |-> "Add", err |-> AddFails(ntf, toks), toks |-> toks,
                ok |-> ntf.ok]
    /\ UNCHANGED <<idUnsended, rlock, now, panic, ev>>
    /\ UNCHANGED <<apivars, cvars>>
    /\ UNCHANGED fb

\* the items a caller of Put brings: without an id, or carrying one
PutLists == {<<NewItem(0, 1100, "a")>>}

CallPut(items) ==
    /\ ~panic
    /\ counter + Len(items) <= MaxIds
    /\ Put(items)
    /\ solo' = "none"
    /\ last' = [op |-> "Put", items |-> items]
    /\ UNCHANGED <<idUnsended, rlock, now, panic, ev>>
    /\ UNCHANGED <<apivars, cvars>>
    /\ UNCHANGED fb

\* Get, lines 110-112
GetCheck ==
    /\ ~panic
    /\ gt = "idle"
    /\ gt' = IF IsHasToSend THEN "lock" ELSE "idle"
    /\ last' = IF IsHasToSend THEN None
               ELSE [op |-> "Get", alone |-> TRUE, ret |-> "nil"]
    /\ solo' = IF IsHasToSend THEN "G" ELSE "none"
    /\ UNCHANGED <<list, counter, idUnsended, rlock, now, panic, wrapped, ev>>
    /\ UNCHANGED <<rs, wt, cvars>>
    /\ UNCHANGED fb

\* Get, lines 113-118
GetTake ==
    /\ ~panic
    /\ gt = "lock"
    /\ GetLocked
    /\ gt' = "idle"
    /\ last' = IF InRange(list, idUnsended)
               THEN [op |-> "Get", alone |-> (solo = "G"),
                     ret |-> At(list, idUnsended).ID]
               ELSE None
    /\ solo' = "none"
    /\ UNCHANGED <<counter, rlock, now, wrapped, ev>>
    /\ UNCHANGED <<rs, wt, cvars>>
    /\ UNCHANGED fb

\* ResendFromID, lines 128-136 and 143-144: the scan under RLock
ResendScan(id, exclude) ==
    /\ ~panic
    /\ rs.pc = "idle"
    /\ LET i == ResendIndex(list, idUnsended, id)
       IN  IF ResendOutOfRange(list, idUnsended, id)
           THEN /\ panic' = TRUE
                /\ last' = [op |-> "ResendPanic", id |-> id]
                /\ UNCHANGED <<rs, solo>>
           ELSE /\ UNCHANGED panic
                /\ rs' = IF i = -1 THEN IdleResend
                         ELSE [pc |-> "apply", i |-> ResendStart(i, exclude),
                               id |-> id, exclude |-> exclude]
                /\ last' = IF i = -1
                           THEN [op |-> "Resend", alone |-> TRUE, ret |-> FALSE,
                                 id |-> id]
                           ELSE None
                /\ solo' = IF i = -1 THEN "none" ELSE "R"
    /\ UNCHANGED <<list, counter, idUnsended, rlock, now, wrapped, ev>>
    /\ UNCHANGED <<gt, wt, cvars>>
    /\ UNCHANGED fb

\* ResendFromID, lines 137-141: the truncation under Lock
ResendApply ==
    /\ ~panic
    /\ rs.pc = "apply"
    /\ rlock = {}
    /\ IF rs.i > Len(list)
       THEN /\ panic' = TRUE
            /\ last' = None
            /\ UNCHANGED <<list, idUnsended, rs>>
       ELSE /\ list' = SliceFrom(list, rs.i)
            /\ idUnsended' = 0
            /\ rs' = IdleResend
            /\ last' = [op |-> "Resend", alone |-> (solo = "R"), ret |-> TRUE,
                        id |-> rs.id, exclude |-> rs.exclude]
            /\ UNCHANGED panic
    /\ solo' = "none"
    /\ UNCHANGED <<counter, rlock, now, wrapped, ev>>
    /\ UNCHANGED <<gt, wt, cvars>>
    /\ UNCHANGED fb

\* what a WriteTo call in the state w returns
WriteToResult(w, alone) ==
    [op |-> "WriteTo", alone |-> alone, total |-> w.total, err |-> w.err,
     from |-> w.from, length |-> w.length, frames |-> w.frames]

\* WriteTo, lines 181-189, reached with the loop over: w is the call's state;
\* the read lock is given up, and the call returns unless the cursor moves
WriteToEnd(w, alone) ==
    /\ rlock' = rlock \ {"W"}
    /\ IF MustPublish(idUnsended, w.sended)
       THEN /\ wt' = [w EXCEPT !.pc = "publish"]
            /\ last' = None
            /\ solo' = IF alone THEN "W" ELSE "none"
       ELSE /\ wt' = IdleWriteTo
            /\ last' = WriteToResult(w, alone)
            /\ solo' = "none"
    /\ UNCHANGED fb

\* WriteTo, lines 155-172: take RLock and fill the buffer up to the first write
WriteToBegin ==
    /\ ~panic
    /\ wt.pc = "idle"
    /\ LET w0 == [pc |-> "write", i |-> idUnsended, length |-> Len(list),
                  sended |-> 0, total |-> 0, err |-> FALSE, buf |-> <<>>,
                  from |-> idUnsended, frames |-> <<>>]
       IN  IF idUnsended >= Len(list)
           THEN /\ WriteToEnd(w0, TRUE)
                /\ UNCHANGED <<list, panic>>
           ELSE IF idUnsended < 0
           THEN /\ panic' = TRUE
                /\ last' = None
                /\ UNCHANGED <<list, rlock, wt, solo>>
           ELSE LET r == Fill(list, idUnsended, Len(list), <<>>, now)
                IN  /\ list' = r.list
                    /\ wt' = [w0 EXCEPT !.i = r.i, !.buf = r.buf]
                    /\ rlock' = rlock \cup {"W"}
                    /\ last' = None
                    /\ solo' = "W"
                    /\ UNCHANGED panic
    /\ UNCHANGED <<counter, idUnsended, now, wrapped, ev>>
    /\ UNCHANGED <<rs, gt, cvars>>
    /\ UNCHANGED fb

\* WriteTo, lines 173-180 and on to the next write or the end of the loop:
\* the sink takes the whole buffer
WriteToWriteOk ==
    /\ ~panic
    /\ wt.pc = "write"
    /\ LET n == SumLens(list, wt.buf)
           w1 == [wt EXCEPT !.total = @ + n, !.sended = Sended(wt.i), !.buf = <<>>,
                            !.frames = IF wt.buf = <<>> THEN @
                                       ELSE Append(@, [idx |-> wt.buf, n |-> n,
                                                       ok |-> TRUE])]
           l1 == MarkOut(list, wt.buf)
       IN  IF wt.i + 1 < wt.length
           THEN LET r == Fill(l1, wt.i + 1, wt.length, <<>>, now)
                IN  /\ list' = r.list
                    /\ wt' = [w1 EXCEPT !.i = r.i, !.buf = r.buf]
                    /\ last' = None
                    /\ solo' = Alone("W")
                    /\ UNCHANGED rlock
           ELSE /\ list' = l1
                /\ WriteToEnd(w1, solo = "W")
    /\ UNCHANGED <<counter, idUnsended, now, panic, wrapped, ev>>
    /\ UNCHANGED <<rs, gt, cvars>>
    /\ UNCHANGED fb

\* WriteTo, lines 174-177: the sink fails after taking n bytes
WriteToWriteErr(n) ==
    /\ ~panic
    /\ wt.pc = "write"
    /\ wt.buf # <<>>
    /\ n < SumLens(list, wt.buf)
    /\ WriteToEnd([wt EXCEPT !.total = @ + n, !.err = TRUE,
                             !.frames = Append(@, [idx |-> wt.buf, n |-> n,
                                                   ok |-> FALSE])],
                  solo = "W")
    /\ UNCHANGED <<list, counter, idUnsended, now, panic, wrapped, ev>>
    /\ UNCHANGED <<rs, gt, cvars>>
    /\ UNCHANGED fb

\* WriteTo, lines 183-186: publish the cursor under Lock
WriteToPublish ==
    /\ ~panic
    /\ wt.pc = "publish"
    /\ rlock = {}
    /\ idUnsended' = PublishedCursor(wt.sended)
    /\ wt' = IdleWriteTo
    /\ last' = WriteToResult(wt, solo = "W")
    /\ solo' = "none"
    /\ UNCHANGED <<list, counter, rlock, now, panic, wrapped, ev>>
    /\ UNCHANGED <<rs, gt, cvars>>
    /\ UNCHANGED fb

Next ==
    \/ Tick
    \/ EvictScan
    \/ EvictApply
    \/ \E ntf \in Templates, toks \in TokenLists : CallAdd(ntf, toks)
    \/ \E items \in PutLists : CallPut(items)
    \/ GetCheck
    \/ GetTake
    \/ \E id \in 0..(CounterMod - 1), exclude \in BOOLEAN : ResendScan(id, exclude)
    \/ ResendApply
    \/ WriteToBegin
    \/ WriteToWriteOk
    \/ \E n \in FailedWrites : WriteToWriteErr(n)
    \/ WriteToPublish

\* the queue under all its operations, run concurrently
Spec == Init /\ [][Next]_vars

NextFlush ==
    \/ \E ntf \in FlushTemplates, toks \in FlushTokenLists : CallAdd(ntf, toks)
    \/ GetCheck
    \/ GetTake
    \/ WriteToBegin
    \/ WriteToWriteOk
    \/ \E n \in FailedWrites : WriteToWriteErr(n)
    \/ WriteToPublish

\* the queue filled and flushed, with items of both lengths
SpecFlush == Init /\ [][NextFlush]_vars

\* AddNotification with the list kept short and the counter left to overflow
CallAddShort(ntf, toks) ==
    /\ ~panic
    /\ Len(list) + ValidCount(toks) <= MaxLen
    /\ AddNotification(ntf, toks)
    /\ solo' = "none"
    /\ last' = [op |-> "Add", err |-> AddFails(ntf, toks), toks |-> toks,
                ok |-> ntf.ok]
    /\ UNCHANGED <<idUnsended, rlock, now, panic, ev>>
    /\ UNCHANGED <<apivars, cvars>>
    /\ UNCHANGED fb

NextIds ==
    \/ \E ntf \in Templates, toks \in IdTokenLists : CallAddShort(ntf, toks)
    \/ GetCheck
    \/ GetTake
    \/ \E id \in 0..(CounterMod - 1), exclude \in BOOLEAN : ResendScan(id, exclude)
    \/ ResendApply

\* the queue filled, emptied and filled again until the counter overflows
SpecIds == Init /\ [][NextIds]_vars

\* the items a caller of Put brings in SpecPut: one without an id, one
\* carrying the id 1, and a pair of which the second carries the id 2
PutIdLists ==
    {<<NewItem(0, 1100, "a")>>, <<NewItem(1, 1100, "b")>>,
     <<NewItem(0, 1000, "a"), NewItem(2, 1000, "b")>>}

\* Put with the list kept short and the counter kept from overflowing
CallPutShort(items) ==
    /\ ~panic
    /\ Len(list) + Len(items) <= MaxLen
    /\ counter + Len(items) <= MaxIds
    /\ Put(items)
    /\ solo' = "none"
    /\ last' = [op |-> "Put", items |-> items]
    /\ UNCHANGED <<idUnsended, rlock, now, panic, ev>>
    /\ UNCHANGED <<apivars, cvars>>
    /\ UNCHANGED fb

NextPut ==
    \/ \E ntf \in Templates, toks \in TokenLists : CallAdd(ntf, toks)
    \/ \E items \in PutIdLists : CallPutShort(items)
    \/ GetCheck
    \/ GetTake
    \/ Tick

\* callers of AddNotification, Put and Get, the counter below its overflow
SpecPut == Init /\ [][NextPut]_vars

\* the cache-cleaning goroutine beside callers of AddNotification, Get and
\* ResendFromID
NextEvict ==
    \/ Tick
    \/ EvictScan
    \/ EvictApply
    \/ \E ntf \in Templates, toks \in TokenLists : CallAdd(ntf, toks)
    \/ GetCheck
    \/ GetTake
    \/ \E id \in 0..(CounterMod - 1), exclude \in BOOLEAN : ResendScan(id, exclude)
    \/ ResendApply

SpecEvict == Init /\ [][NextEvict]_vars

\* ------------------------------------------------- Client.Send
\* the templates and tokens the Send callers bring
SendTemplates == [ok : BOOLEAN, Len : {1100}]
SendTokenLists == {<<TokA>>, <<TokA, TokA>>}
\* the token lists of the Send callers of SpecSubmit: none, or two
SubmitTokenLists == {<<>>, <<TokA, TokA>>}

\* the goroutines that have no sendQueue running
FreeLoops == {g \in Loops : lp[g].pc = "off"}

\* the goroutine `go client.sendQueue()` starts
NewLoop == CHOOSE g \in FreeLoops : \A h \in FreeLoops : LoopRank(g) <= LoopRank(h)

\* the sendQueue g is past its entry checks, in the loop body
InBody(g) == lp[g].pc \in {"conn", "get", "take", "flush"}

\* Send, lines 54-56: queue the notification; return its error if any
SendAdd(s, ntf, toks) ==
    /\ ~panic
    /\ snd[s] = "idle"
    /\ Len(list) + ValidCount(toks) <= MaxQueued
    /\ AddNotification(ntf, toks)
    /\ snd' = [snd EXCEPT ![s] = IF AddFails(ntf, toks) THEN "idle" ELSE "flag"]
    /\ solo' = "none"
    /\ last' = [op |-> "Add", err |-> AddFails(ntf, toks), toks |-> toks,
                ok |-> ntf.ok]
    /\ UNCHANGED <<idUnsended, rlock, now, panic, ev>>
    /\ UNCHANGED <<apivars, isSendign, isConnected, lp, sentLog, overlap>>
    /\ UNCHANGED fb

\* Send, lines 58-65: read the flag; start sendQueue unless it is set
SendStart(s) ==
    /\ ~panic
    /\ snd[s] = "flag"
    /\ IF isSendign
       THEN UNCHANGED lp
       ELSE /\ FreeLoops # {}
            /\ lp' = [lp EXCEPT ![NewLoop] = [IdleLoop EXCEPT !.pc = "check"]]
    /\ snd' = [snd EXCEPT ![s] = "idle"]
    /\ last' = None
    /\ UNCHANGED <<qstate, apivars>>
    /\ UNCHANGED <<isSendign, isConnected, sentLog, overlap>>
    /\ UNCHANGED fb

\* --------------------------------------------- Client.sendQueue
\* lines 79-84: leave if a sendQueue is marked as running
LoopCheck(g) ==
    /\ ~panic
    /\ lp[g].pc = "check"
    /\ lp' = [lp EXCEPT ![g] = IF isSendign THEN IdleLoop
                               ELSE [@ EXCEPT !.pc = "has"]]
    /\ last' = None
    /\ UNCHANGED <<qstate, apivars>>
    /\ UNCHANGED <<isSendign, isConnected, snd, sentLog, overlap>>
    /\ UNCHANGED fb

\* lines 85-87: leave if there is nothing to send
LoopHas(g) ==
    /\ ~panic
    /\ lp[g].pc = "has"
    /\ lp' = [lp EXCEPT ![g] = IF IsHasToSend THEN [@ EXCEPT !.pc = "set"]
                               ELSE IdleLoop]
    /\ last' = None
    /\ UNCHANGED <<qstate, apivars>>
    /\ UNCHANGED <<isSendign, isConnected, snd, sentLog, overlap>>
    /\ UNCHANGED fb

\* lines 88-96: mark sendQueue as running, take a buffer
LoopSet(g) ==
    /\ ~panic
    /\ lp[g].pc = "set"
    /\ isSendign' = TRUE
    /\ lp' = [lp EXCEPT ![g] = [@ EXCEPT !.pc = "conn"]]
    /\ overlap' = (overlap \/ \E h \in Loops \ {g} : InBody(h))
    /\ last' = None
    /\ UNCHANGED <<qstate, apivars>>
    /\ UNCHANGED <<isConnected, snd, sentLog>>
    /\ UNCHANGED fb

\* lines 100-104: connect if there is no connection; a failed Connect panics
LoopConnect(g, ok) ==
    /\ ~panic
    /\ lp[g].pc = "conn"
    /\ IF isConnected \/ ok
       THEN /\ isConnected' = TRUE
            /\ lp' = [lp EXCEPT ![g] = [@ EXCEPT !.pc = IF lp[g].ntf = -1
                                                       THEN "get"
                                                       ELSE "flush"]]
            /\ UNCHANGED panic
       ELSE /\ panic' = TRUE
            /\ UNCHANGED <<isConnected, lp>>
    /\ last' = None
    /\ UNCHANGED <<list, counter, idUnsended, rlock, now, wrapped, solo, ev>>
    /\ UNCHANGED <<apivars, isSendign, snd, sentLog, overlap>>
    /\ UNCHANGED fb

\* lines 107-112: Get calls IsHasToSend; an empty queue is asked once more
\* after client.Delay
LoopGet(g) ==
    /\ ~panic
    /\ lp[g].pc = "get"
    /\ lp' = [lp EXCEPT ![g] =
                 IF IsHasToSend THEN [@ EXCEPT !.pc = "take"]
                 ELSE IF @.tries = 0 THEN [@ EXCEPT !.tries = 1]
                 ELSE [@ EXCEPT !.pc = "flush", !.tries = 0]]
    /\ last' = None
    /\ UNCHANGED <<qstate, apivars>>
    /\ UNCHANGED <<isSendign, isConnected, snd, sentLog, overlap>>
    /\ UNCHANGED fb

\* lines 108 and 111: the locked part of Get
LoopTake(g) ==
    /\ ~panic
    /\ lp[g].pc = "take"
    /\ GetLocked
    /\ lp' = IF InRange(list, idUnsended)
             THEN [lp EXCEPT ![g] = [@ EXCEPT !.pc = "flush", !.tries = 0,
                                              !.ntf = idUnsended]]
             ELSE lp
    /\ last' = None
    /\ UNCHANGED <<counter, rlock, now, wrapped, solo, ev>>
    /\ UNCHANGED <<apivars, isSendign, isConnected, snd, sentLog, overlap>>
    /\ UNCHANGED fb

\* line 116 without its second test: the buffer is written only when no
\* item is left
MustFlushLate(g) == lp[g].ntf = -1

\* line 116: the buffer has to be written before the item is added
MustFlush(g) ==
    IF lp[g].ntf = -1 THEN TRUE
    ELSE lp[g].buf + At(list, lp[g].ntf).Len > MaxFrameBuffer

\* lines 130-133: the item goes into the buffer, which holds buf bytes, and
\* is stamped
Buffered(g, buf) ==
    /\ lp' = [lp EXCEPT ![g] = [@ EXCEPT !.pc = "get", !.ntf = -1,
                                         !.buf = buf + At(list, lp[g].ntf).Len]]
    /\ list' = [list EXCEPT ![lp[g].ntf + 1] = [@ EXCEPT !.Sended = now,
                                                        !.out = TRUE]]
    /\ sentLog' = Append(sentLog, At(list, lp[g].ntf).ID)

\* lines 116, 130-133: the item fits, it goes into the buffer
LoopAppend(g) ==
    /\ ~panic
    /\ lp[g].pc = "flush"
    /\ ~MustFlush(g)
    /\ Buffered(g, lp[g].buf)
    /\ last' = None
    /\ UNCHANGED <<counter, idUnsended, rlock, now, panic, wrapped, solo, ev>>
    /\ UNCHANGED <<apivars, isSendign, isConnected, snd, overlap>>
    /\ UNCHANGED fb

\* lines 116-133: the connection takes the buffer (an empty buffer is not
\* written at all); then the loop ends or the item goes into the buffer
LoopFlushOk(g) ==
    /\ ~panic
    /\ lp[g].pc = "flush"
    /\ MustFlush(g)
    /\ IF lp[g].ntf = -1
       THEN /\ lp' = [lp EXCEPT ![g] = [@ EXCEPT !.pc = "clear", !.buf = 0]]
            /\ UNCHANGED <<list, sentLog>>
       ELSE Buffered(g, 0)
    /\ last' = [op |-> "Write", g |-> g, n |-> lp[g].buf, err |-> FALSE]
    /\ UNCHANGED <<counter, idUnsended, rlock, now, panic, wrapped, solo, ev>>
    /\ UNCHANGED <<apivars, isSendign, isConnected, snd, overlap>>
    /\ UNCHANGED fb

\* lines 117-121: the write fails after n bytes; the rest stays in the
\* buffer, the connection is lost and the outer loop reconnects
LoopFlushErr(g, n) ==
    /\ ~panic
    /\ lp[g].pc = "flush"
    /\ MustFlush(g)
    /\ n < lp[g].buf
    /\ lp' = [lp EXCEPT ![g] = [@ EXCEPT !.pc = "conn", !.buf = @ - n]]
    /\ isConnected' = FALSE
    /\ last' = [op |-> "Write", g |-> g, n |-> lp[g].buf, err |-> TRUE]
    /\ UNCHANGED <<qstate, apivars>>
    /\ UNCHANGED <<isSendign, snd, sentLog, overlap>>
    /\ UNCHANGED fb

\* lines 136-139: give the buffer back and clear the flag
LoopClear(g) ==
    /\ ~panic
    /\ lp[g].pc = "clear"
    /\ isSendign' = FALSE
    /\ lp' = [lp EXCEPT ![g] = IdleLoop]
    /\ last' = None
    /\ UNCHANGED <<qstate, apivars>>
    /\ UNCHANGED <<isConnected, snd, sentLog, overlap>>
    /\ UNCHANGED fb

NextClient ==
    \/ \E s \in Senders, ntf \in SendTemplates, toks \in SendTokenLists :
           SendAdd(s, ntf, toks)
    \/ \E s \in Senders : SendStart(s)
    \/ \E g \in Loops : LoopCheck(g)
    \/ \E g \in Loops : LoopHas(g)
    \/ \E g \in Loops : LoopSet(g)
    \/ \E g \in Loops, ok \in BOOLEAN : LoopConnect(g, ok)
    \/ \E g \in Loops : LoopGet(g)
    \/ \E g \in Loops : LoopTake(g)
    \/ \E g \in Loops : LoopAppend(g)
    \/ \E g \in Loops : LoopFlushOk(g)
    \/ \E g \in Loops, n \in FailedWrites : LoopFlushErr(g, n)
    \/ \E g \in Loops : LoopClear(g)

SpecClient == Init /\ [][NextClient]_vars

\* Send callers that may bring no token at all, and the sendQueue goroutines
NextSubmit ==
    \/ \E s \in Senders, ntf \in SendTemplates, toks \in SubmitTokenLists :
           SendAdd(s, ntf, toks)
    \/ \E s \in Senders : SendStart(s)
    \/ \E g \in Loops : LoopCheck(g)
    \/ \E g \in Loops : LoopHas(g)
    \/ \E g \in Loops : LoopSet(g)
    \/ \E g \in Loops, ok \in BOOLEAN : LoopConnect(g, ok)
    \/ \E g \in Loops : LoopGet(g)
    \/ \E g \in Loops : LoopTake(g)
    \/ \E g \in Loops : LoopAppend(g)
    \/ \E g \in Loops : LoopFlushOk(g)
    \/ \E g \in Loops, n \in FailedWrites : LoopFlushErr(g, n)
    \/ \E g \in Loops : LoopClear(g)

SpecSubmit == Init /\ [][NextSubmit]_vars

\* ------------------------------------------------------ Feedback
\* the records the feedback server may send: a timestamp that fills one
\* byte with a token of one byte, a timestamp that fills two bytes with a
\* token of two bytes
FeedbackRecords ==
    {[timestamp |-> 1, Token |-> <<1>>], [timestamp |-> 257, Token |-> <<2, 1>>]}

\* the answers of the server: up to MaxRecords records
RECURSIVE Answers(_)
Answers(n) ==
    IF n = 0 THEN {<<>>}
    ELSE Answers(n - 1) \cup
         {Append(a, r) : a \in {b \in Answers(n - 1) : Len(b) = n - 1},
                         r \in FeedbackRecords}

\* a 32-bit and a 16-bit number as bytes, most significant first
PutUint32(v) ==
    <<v \div 16777216, (v \div 65536) % 256, (v \div 256) % 256, v % 256>>
PutUint16(v) == <<v \div 256, v % 256>>

\* binary.BigEndian.Uint32 and Uint16
Uint32(b) == ((b[1] * 256 + b[2]) * 256 + b[3]) * 256 + b[4]
Uint16(b) == b[1] * 256 + b[2]

\* the bytes of the records on the wire
RECURSIVE Wire(_)
Wire(rcs) ==
    IF rcs = <<>> THEN <<>>
    ELSE PutUint32(Head(rcs).timestamp) \o PutUint16(Len(Head(rcs).Token))
         \o Head(rcs).Token \o Wire(Tail(rcs))

\* make([]byte, n)
MakeBytes(n) == [k \in 1..n |-> 0]

\* the bytes of the stream not yet read
Remaining == Len(fb.stream) - fb.pos

\* the byte counts one conn.Read(p) may return when bytes remain: at least
\* one byte, at most len(p) and at most what remains
ReadCounts(p) ==
    {n \in 1..Len(p) : n <= Remaining}

\* conn.Read(p) returning n bytes: they go to the front of p, the rest of p
\* is left as it was
ReadInto(p, n) ==
    [k \in 1..Len(p) |-> IF k <= n THEN fb.stream[fb.pos + k] ELSE p[k]]

\* lines 31-45: connect; the server has rcs to send; a failed Dial returns
\* its error
FeedbackDial(rcs, ok) ==
    /\ ~panic
    /\ fb.pc = "idle"
    /\ fb' = IF ok
             THEN [IdleFeedback EXCEPT !.pc = "header", !.records = rcs,
                                       !.stream = Wire(rcs),
                                       !.header = MakeBytes(HeaderSize)]
             ELSE [IdleFeedback EXCEPT !.pc = "failed", !.err = TRUE]
    /\ last' = None
    /\ UNCHANGED <<qstate, apivars, cvars>>

\* lines 47-54: one conn.Read(header); io.EOF ends the call without error;
\* otherwise the token size is taken from the header
FeedbackReadHeader(n) ==
    /\ ~panic
    /\ fb.pc = "header"
    /\ IF Remaining = 0
       THEN /\ n = 0
            /\ fb' = [fb EXCEPT !.pc = "done"]
       ELSE /\ n \in ReadCounts(fb.header)
            /\ LET header == ReadInto(fb.header, n)
                   tokenSize == Uint16(SubSeq(header, 5, 6))
               IN fb' = [fb EXCEPT !.pc = "token", !.pos = @ + n,
                                   !.header = header,
                                   !.tokenSize = tokenSize,
                                   !.tokenBuffer = MakeBytes(tokenSize)]
    /\ last' = None
    /\ UNCHANGED <<qstate, apivars, cvars>>

\* the record of lines 61-64
Response(header, tokenBuffer) ==
    [timestamp |-> Uint32(SubSeq(header, 1, 4)), Token |-> tokenBuffer]

\* lines 55-65: one conn.Read(tokenBuffer); io.EOF ends the call without
\* error; otherwise the record is added to the result.  A Read into an empty
\* buffer returns 0 bytes and no error.
FeedbackReadToken(n) ==
    /\ ~panic
    /\ fb.pc = "token"
    /\ IF fb.tokenSize > 0 /\ Remaining = 0
       THEN /\ n = 0
            /\ fb' = [fb EXCEPT !.pc = "done"]
       ELSE /\ IF fb.tokenSize = 0 THEN n = 0
               ELSE n \in ReadCounts(fb.tokenBuffer)
            /\ LET tokenBuffer == ReadInto(fb.tokenBuffer, n)
               IN fb' = [fb EXCEPT
                            !.pc = "header", !.pos = @ + n,
                            !.tokenBuffer = tokenBuffer,
                            !.result = Append(@, Response(fb.header,
                                                          tokenBuffer))]
    /\ last' = None
    /\ UNCHANGED <<qstate, apivars, cvars>>

\* the bytes one Read may be asked to return
ReadSizes == 0..HeaderSize

NextFeedback ==
    \/ \E rcs \in Answers(MaxRecords), ok \in BOOLEAN : FeedbackDial(rcs, ok)
    \/ \E n \in ReadSizes : FeedbackReadHeader(n)
    \/ \E n \in ReadSizes : FeedbackReadToken(n)

SpecFeedback == Init /\ [][NextFeedback]_vars

\* ------------------------------------------------------------ claims
\* every operation of the queue is at rest
AtRest == gt = "idle" /\ rs.pc = "idle" /\ wt.pc = "idle" /\ ev.pc = "sleep"

RECURSIVE Flatten(_)
\* the indices of the frames fs, in the order written
Flatten(fs) == IF fs = <<>> THEN <<>> ELSE Head(fs).idx \o Flatten(Tail(fs))

RECURSIVE SumBytes(_)
\* the bytes the sink took over the frames fs
SumBytes(fs) == IF fs = <<>> THEN 0 ELSE Head(fs).n + SumBytes(Tail(fs))

\* the indices from..(length - 1), in order
Pending(from, length) == [k \in 1..(length - from) |-> from + k - 1]

\* the frames the sink took whole
OkFrames(fs) == SelectSeq(fs, LAMBDA f : f.ok)

\* a WriteTo call that ran alone has just returned
FlushReturned == last.op = "WriteTo" /\ last.alone

\* C3: a WriteTo that ran alone and met no error wrote every item pending at
\* the call exactly once, in index order, packed greedily: the bytes returned
\* are the lengths of all pending items, and a frame ends only where the next
\* item would overflow it.
C3_FlushWritesAllPending ==
    (FlushReturned /\ ~last.err) =>
        LET all == Pending(last.from, last.length)
            fs == last.frames
        IN  /\ Flatten(fs) = all
            /\ last.total = SumLens(list, all)
            /\ \A k \in 1..Len(fs) : SumLens(list, fs[k].idx) <= MaxFrameBuffer
            /\ \A k \in 1..(Len(fs) - 1) :
                   SumLens(list, fs[k].idx) + At(list, Head(fs[k + 1].idx)).Len
                       > MaxFrameBuffer

\* C4: after a WriteTo that ran alone, met no error and had at least one
\* pending item, the cursor is the length of the list.
C4_FlushAdvancesCursor ==
    (FlushReturned /\ ~last.err /\ last.from < last.length) =>
        idUnsended = Len(list)

\* C5: the cursor stays within 0..len(list), and no operation indexes or
\* slices the list out of its bounds.
C5_CursorInBounds == ~panic /\ 0 <= idUnsended /\ idUnsended <= Len(list)

\* C6: with every operation at rest, the items below the cursor have a sent
\* time and were handed out, and the items from the cursor on are unsent.
C6_SentUnsentPartition ==
    AtRest =>
        \A k \in 1..Len(list) :
            IF k - 1 < idUnsended
            THEN list[k].Sended # ZeroTime /\ list[k].out
            ELSE list[k].Sended = ZeroTime

\* C7: a WriteTo that ran alone and met a write error returns the bytes the
\* sink took, and leaves the cursor just past the items of the frames written
\* before the failed one.
C7_FlushErrorCursor ==
    (FlushReturned /\ last.err) =>
        /\ last.total = SumBytes(last.frames)
        /\ Flatten(OkFrames(last.frames)) = Pending(last.from, idUnsended)

\* an AddNotification step that appended items
Appended == last'.op = "Add" /\ Len(list') > Len(list)

\* the ids of the appended items are strictly increasing and follow every id
\* assigned before, and the items carry the valid tokens in the order given
NewIdsIncrease ==
    LET new == SubSeq(list', Len(list) + 1, Len(list'))
        valid == SelectSeq(last'.toks, ValidToken)
    IN  /\ new[1].ID > counter
        /\ \A k \in 1..(Len(new) - 1) : new[k].ID < new[k + 1].ID
        /\ new[Len(new)].ID = counter'
        /\ Len(new) = Len(valid)
        /\ \A k \in 1..Len(new) : new[k].tok = valid[k].dev

\* C8 as claimed: the ids AddNotification assigns are strictly increasing in
\* append order, for every sequence of calls.
C8_IdsAlwaysIncrease == [][Appended => NewIdsIncrease]_vars

\* C8 amended: the ids AddNotification assigns are strictly increasing in
\* append order, and the tokens of a call get them in the order given, as
\* long as the counter has not overflowed.
C8_IdsIncreaseUntilOverflow == [][(Appended /\ ~wrapped') => NewIdsIncrease]_vars

\* C8 witness: a call with two valid tokens has appended to a list that held
\* items, the counter not having overflowed
C8_Witness ==
    /\ last.op = "Add"
    /\ ~wrapped
    /\ Len(SelectSeq(last.toks, ValidToken)) = 2
    /\ Len(list) = 3

\* the sent times below the cursor do not decrease with the index
SentTimesOrdered(l, cur) ==
    \A i, j \in 1..cur : i <= j => l[i].Sended <= l[j].Sended

\* the sent items of l that are stale at lifeTime
Stale(l, cur, lifeTime) == {k \in 1..cur : l[k].Sended <= lifeTime}

\* C10: with ordered sent times and no concurrent operation, a cleaning pass
\* removes exactly the sent items with Sended <= now - CacheLifeTime, a prefix
\* of the list, and lowers the cursor by their number; with no stale sent
\* item the pass changes neither the list nor the cursor.
C10_EvictionBoundary ==
    [][ /\ (ev.pc = "apply" /\ ev'.pc = "sleep" /\ solo = "E"
              /\ SentTimesOrdered(list, idUnsended)) =>
            LET n == Cardinality(Stale(list, idUnsended, ev.lifeTime))
            IN  /\ Stale(list, idUnsended, ev.lifeTime) = 1..n
                /\ n > 0
                /\ list' = SubSeq(list, n + 1, Len(list))
                /\ idUnsended' = idUnsended - n
        /\ (ev.pc = "sleep" /\ solo' = "E" /\ ~panic') =>
            Stale(list, idUnsended, now - CacheLifeTime) # {}
        /\ (ev.pc = "sleep" /\ last'.op = "Evict") =>
            /\ Stale(list, idUnsended, now - CacheLifeTime) = {}
            /\ list' = list
            /\ idUnsended' = idUnsended
      ]_vars

\* C10 witness: a pass that ran alone has removed stale items and left a sent
\* item that is not stale
C10_Witness ==
    /\ last.op = "Evict"
    /\ last.alone
    /\ last.removed > 0
    /\ idUnsended > 0
    /\ SentTimesOrdered(list, idUnsended)

\* the sendQueue loops in the loop body
Running == {g \in Loops : InBody(g)}

\* C1: at most one sendQueue is past its entry checks and in the loop body,
\* however many Send calls run concurrently.
C1_SingleFlight == Cardinality(Running) <= 1

\* every Send has returned and no sendQueue runs or is about to run
Quiescent ==
    /\ ~panic
    /\ \A s \in Senders : snd[s] = "idle"
    /\ \A g \in Loops : lp[g].pc = "off"

\* C2: in a quiescent state the queue holds no pending item.
C2_NoStrandedWork == Quiescent => ~IsHasToSend

\* the ids of log are strictly increasing
Increasing(log) == \A i, j \in 1..Len(log) : i < j => log[i] < log[j]

\* the ids of log, as a set
Ids(log) == {log[k] : k \in 1..Len(log)}

\* the ids went into the buffer in strictly increasing order, and every item
\* of the list not yet in the buffer has a greater id than those that are
InIdOrder ==
    /\ Increasing(sentLog)
    /\ \A k \in 1..Len(list) :
           list[k].ID \notin Ids(sentLog) =>
               \A j \in 1..Len(sentLog) : sentLog[j] < list[k].ID

\* C9 as claimed: with one sendQueue loop at a time and no ResendFromID, the
\* items go into the outgoing buffer in strictly increasing order of ID, none
\* before a pending item of smaller ID and none twice.
C9_TransmissionOrder == ~overlap => InIdOrder

\* C9 amended: with one sendQueue loop at a time and no ResendFromID, the
\* items go into the outgoing buffer in strictly increasing order of ID, none
\* before a pending item of smaller ID and none twice, as long as the id
\* counter has not overflowed.
C9_OrderUntilOverflow == (~overlap /\ ~wrapped) => InIdOrder

\* C9 witness: one loop has put three items into its buffer, reconnecting
\* after a failed write, while Send queued items
C9_Witness ==
    /\ ~overlap
    /\ ~wrapped
    /\ sentLog = <<1, 2, 3>>
    /\ ~isConnected

\* the first index below the cursor whose item has the id, or -1
Matched(l, cur, id) ==
    LET hits == {i \in 0..(cur - 1) : i < Len(l) /\ l[i + 1].ID = id}
    IN  IF hits = {} THEN -1 ELSE CHOOSE i \in hits : \A j \in hits : i <= j

\* C11: a ResendFromID(id, exclude) that finds the id at index i of the sent
\* items and runs with no other operation beside it returns true, leaves the
\* old list from index i on (from i + 1 with exclude) and the cursor at 0, so
\* that the first item of the list, the matched one (or the one after it), is
\* the next to be sent; the counter is unchanged.
C11_ResendTruncates ==
    [][ (rs.pc = "apply" /\ solo = "R" /\ rs'.pc = "idle") =>
            LET i == Matched(list, idUnsended, rs.id)
                from == IF rs.exclude THEN i + 1 ELSE i
            IN  /\ i >= 0
                /\ ~panic'
                /\ last'.op = "Resend" /\ last'.ret
                /\ list' = SubSeq(list, from + 1, Len(list))
                /\ idUnsended' = 0
                /\ counter' = counter
                /\ from < Len(list) =>
                       list'[1].ID = list[from + 1].ID
                /\ ~rs.exclude => list'[1].ID = rs.id
      ]_vars

\* C11 witness: a ResendFromID with exclude, run alone, has dropped the
\* matched item and the ones before it and left a sent item and a pending one
C11_Witness ==
    /\ last.op = "Resend"
    /\ last.alone
    /\ last.ret
    /\ last.exclude
    /\ Len(list) = 2
    /\ list[1].Sended # ZeroTime
    /\ list[2].Sended = ZeroTime

\* a step of ResendFromID's scan
Scanned ==
    rs.pc = "idle" /\ (rs'.pc = "apply" \/ last'.op \in {"Resend", "ResendPanic"})

\* C12: a ResendFromID whose id no item below the cursor has returns false
\* and changes neither the list nor the cursor nor the counter.
C12_UnmatchedResend ==
    [][ /\ (Scanned /\ rs'.pc = "apply") =>
               Matched(list, idUnsended, rs'.id) >= 0
        /\ (Scanned /\ rs'.pc # "apply") =>
               /\ ~panic'
               /\ last'.op = "Resend" /\ ~last'.ret
               /\ Matched(list, idUnsended, last'.id) = -1
               /\ list' = list
               /\ idUnsended' = idUnsended
               /\ counter' = counter
      ]_vars

\* an AddNotification call, made by Send, has returned in this step
AddReturned == last'.op = "Add" /\ last' # last

\* the call returned the conversion error and changed nothing, and Send
\* returned at once without starting sendQueue
RejectedWhole ==
    /\ last'.err
    /\ list' = list
    /\ idUnsended' = idUnsended
    /\ counter' = counter
    /\ snd' = snd
    /\ lp' = lp
    /\ isSendign' = isSendign

C14_FeedbackParses ==
    fb.pc = "done" => (fb.result = fb.records /\ ~fb.err)

\* ---------------------------------------------------------------------
\* a write of WriteTo to the sink is in progress
SinkWriteOutstanding == wt.pc = "write"

\* AddNotification can take q.mu.Lock(): nobody holds the lock for reading
\* (sections under Lock are single steps, so nobody holds it for writing
\* between steps)
CanLock == rlock = {}

\* C15  WriteTo does not hold the queue lock in any mode while a write to
\* the sink is in progress: in every state where a sink write is outstanding
\* a concurrent AddNotification can acquire the exclusive lock.
C15_NoLockDuringWrite == SinkWriteOutstanding => CanLock

\* ---------------------------------------------------------------------
\* the sendQueue g takes the step of line 116, with or without a write
AtDecision(g) == lp[g].pc = "flush" /\ lp'[g] # lp[g]

\* the sendQueue g holds no item: the queue had nothing left
NoneLeft(g) == lp[g].ntf = -1

\* the item the sendQueue g holds would overflow its buffer
Overflows(g) ==
    /\ lp[g].ntf # -1
    /\ lp[g].buf + At(list, lp[g].ntf).Len > MaxFrameBuffer

\* the step hands the buffer of the sendQueue g to the connection
Wrote(g) == last'.op = "Write" /\ last'.g = g

\* every item of the list fits one frame
ItemsFit == \A k \in 1..Len(list) : list[k].Len <= MaxFrameBuffer

\* C16  Frame ceiling in the driver: with items of at most MaxFrameBuffer
\* bytes, the buffer of a sendQueue loop holds at most MaxFrameBuffer bytes
\* before and after every step, failed and partial writes followed by a
\* reconnect included; no write hands more than MaxFrameBuffer bytes to the
\* connection; and the buffer is written exactly at the steps where the item
\* held would overflow it or no item is left.
C16_FrameCeiling ==
    [][ItemsFit =>
          \A g \in Loops :
              /\ lp[g].buf <= MaxFrameBuffer
              /\ lp'[g].buf <= MaxFrameBuffer
              /\ Wrote(g) => (AtDecision(g) /\ last'.n <= MaxFrameBuffer)
              /\ AtDecision(g) => (Wrote(g) <=> (NoneLeft(g) \/ Overflows(g)))]_vars

\* a sendQueue loop whose write failed after part of the buffer has
\* reconnected, added an item to the rest, and holds an item that overflows
C16_Witness ==
    \E g \in Loops :
        /\ lp[g].pc = "flush"
        /\ lp[g].ntf # -1
        /\ lp[g].buf = 1700
        /\ isConnected
        /\ lp[g].buf + At(list, lp[g].ntf).Len > MaxFrameBuffer

\* ---------------------------------------------------------------------
\* the sendQueue g holds the buffer of line 95, not yet given back by line 136
HoldsBuffer(g) == InBody(g) \/ lp[g].pc = "clear"

\* a WriteTo call holds the buffer of line 155: the deferred putBuffer gives
\* it back when the call returns
WriteToHoldsBuffer == wt.pc # "idle"

\* the goroutine g does not run: sendQueue has returned, or died of a panic
LoopEnded(g) == lp[g].pc = "off" \/ panic

\* C17  Buffer release: a buffer taken by WriteTo or by sendQueue is given
\* back on every path out of the operation, a failed write and a failed
\* connect included; and once the send loops have ended, on whatever path,
\* the flag isSendign is false.
C17_BuffersReleased ==
    /\ \A g \in Loops : LoopEnded(g) => ~HoldsBuffer(g)
    /\ (last.op = "WriteTo" => ~WriteToHoldsBuffer)
    /\ (\A g \in Loops : LoopEnded(g)) => ~isSendign

\* ---------------------------------------------------------------------
\* the ids of the items of l, in index order
ListIds(l) == [k \in 1..Len(l) |-> l[k].ID]

\* how many of the first k items carry no id
Unset(items, k) == Cardinality({j \in 1..k : items[j].ID = 0})

\* a Put call returns in this step
PutReturned == last'.op = "Put" /\ list' # list

\* Put has appended the items given, in order: those given with the id 0
\* carry the next values of the counter, the others their id as given
PutAssignsUnset ==
    LET given == last'.items
        added == SubSeq(list', Len(list) + 1, Len(list'))
    IN  /\ Len(added) = Len(given)
        /\ counter' = counter + Unset(given, Len(given))
        /\ \A k \in 1..Len(given) :
               added[k] = [given[k] EXCEPT
                              !.ID = IF given[k].ID = 0
                                     THEN counter + Unset(given, k)
                                     ELSE given[k].ID]

\* C18  List order invariant: after any sequence of AddNotification and Put
\* calls, Put being given items with a non-zero id as well as items with the
\* id 0, the ids of the list are strictly increasing in index order (hence
\* distinct); and Put gives a fresh counter value to exactly the items whose
\* id is 0 and leaves the other ids as given.
C18_ListOrder ==
    [][/\ Increasing(ListIds(list'))
       /\ PutReturned => PutAssignsUnset]_vars

\* ---------------------------------------------------------------------
\* the number of items of l below the cursor
Below(l, cur) == IF cur > Len(l) THEN Len(l) ELSE cur

\* C19  Sent timestamps are ordered: in every reachable state, whatever
\* AddNotification, Get, WriteTo (several frames, write errors),
\* ResendFromID and the cache cleaning have done, the Sended values of the
\* items below the cursor do not decrease with the index.
C19_SentTimesOrdered == SentTimesOrdered(list, Below(list, idUnsended))

\* ---------------------------------------------------------------------
\* the cache cleaning truncates the list in this step
EvictApplied == ev.pc = "apply" /\ ev'.pc = "sleep"

\* ResendFromID truncates the list in this step
ResendApplied == rs.pc = "apply" /\ rs'.pc = "idle"

\* the number of items the step takes from the front of the list
Dropped == Len(list) - Len(list')

\* the item at index k (from 1) is one ResendFromID(id, exclude) is to keep:
\* the item with the id, unless excluded, and the items after it
ToKeep(k, id, exclude) ==
    IF exclude THEN list[k].ID > id ELSE list[k].ID >= id

\* C20  Eviction and resend never drop unsent work under interleaving: the
\* cache cleaning never removes an item that has never been dequeued or
\* written, and ResendFromID with a matching id never removes the matched
\* item (unless excluded) or an item after it, whatever runs between the
\* scan under RLock and the truncation under Lock.
C20_NoUnsentDropped ==
    [][/\ EvictApplied => \A k \in 1..Dropped : list[k].out
       /\ ResendApplied =>
              \A k \in 1..Dropped : ~ToKeep(k, rs.id, rs.exclude)]_vars

====
